---- MODULE Spec2Model ----
(***************************************************************************)
(* The MMTk garbage-collection backend of gc/mmtk.c as a state machine.    *)
(*                                                                         *)
(* Memory is byte addressed; a VALUE is one 8-byte word.  `heap' holds the *)
(* words that have been written.  Every execution unit (ractor) runs the   *)
(* backend's entry points; rb_gc_impl_new_obj is split at its calls into   *)
(* the allocator and the registry, which is where units interleave.        *)
(***************************************************************************)
EXTENDS Integers, Sequences, FiniteSets, TLC

(* ------------------------------ bounds -------------------------------- *)

\* Number of execution units.
NUnits == 2

\* Blocks handed out by mmtk_alloc in one run.
MaxObjs == 3

\* Calls of rb_gc_impl_shutdown_call_finalizer in one run.
MaxShutdown == 2

\* Mutators bound by mmtk_bind_mutator in one run.
MaxBinds == 3

\* Largest size requested in the size sweep (SpecSizes).
MaxReq == 648

(* --------------------------- program constants ------------------------ *)

\* sizeof(VALUE): the hidden size word in front of every object.
WORD == 8

MMTK_MIN_OBJ_ALIGN == 8

\* The bound of both loops over size_pool_sizes.
SIZE_POOL_COUNT == 5

\* The limit tested by rb_gc_impl_new_obj and rb_gc_impl_size_allocatable_p.
MAX_ALLOC_SIZE == 640

size_pool_sizes == <<40, 80, 160, 320, 640, 0>>

\* A null pointer: no cache.
NULL == 0

\* The value standing for "rb_bug was called: the function does not return".
RB_BUG == -1

\* First address the allocator hands out.
HeapBase == 64

\* ruby_value_type bits of the flags word.
T_OBJECT == 1
T_DATA == 12
T_MASK == 31

Units == 1..NUnits

\* The argument vectors the runtime passes to rb_gc_impl_new_obj.
ArgsData   == [klass |-> 101, flags |-> T_DATA,   v1 |-> 11, v2 |-> 12, v3 |-> 13, wb |-> FALSE]
ArgsObject == [klass |-> 102, flags |-> T_OBJECT, v1 |-> 21, v2 |-> 22, v3 |-> 23, wb |-> TRUE]
Args == {ArgsData, ArgsObject}

\* The same with the other wb_protected, and a T_DATA object without data.
ArgsDataWb == [ArgsData EXCEPT !.wb = TRUE]
ArgsObjectNoWb == [ArgsObject EXCEPT !.wb = FALSE]
ArgsDataNull == [ArgsData EXCEPT !.v3 = NULL]
ArgsAll == Args \cup {ArgsDataWb, ArgsObjectNoWb, ArgsDataNull}

\* The calls of rb_gc_impl_new_obj made while units interleave (Spec).
Requests ==
    { [args |-> ArgsData,   size |-> 24],
      [args |-> ArgsObject, size |-> 80],
      [args |-> ArgsData,   size |-> 641] }

VARIABLES
    heap,           \* memory: written word address -> value
    cursor,         \* the allocator's bump pointer
    candidates,     \* the obj-free candidate registry (a vector of objects)
    mutators,       \* the mutators bound in the backend
    cache,          \* cache[u]: the cache handle unit u holds, or NULL
    pc,             \* pc[u]: where unit u is inside rb_gc_impl_new_obj
    frame,          \* frame[u]: arguments and locals of u's rb_gc_impl_new_obj, and
                    \* whether it was called after shutdown began / while disabled /
                    \* after stress mode was switched on and off again
    returned,       \* the calls of rb_gc_impl_new_obj that returned, with their result
    nret,           \* nret[u]: number of calls that returned to unit u
    free_count,     \* object -> number of rb_gc_obj_free calls on it
    data_cleared,   \* objects whose data pointer the runtime has reset
    shutdown_calls, \* calls of rb_gc_impl_shutdown_call_finalizer so far
    free_objects_called, \* rb_gc_impl_shutdown_free_objects has been called
    gc_disabled,    \* the last of gc_enable / gc_disable called was gc_disable
    query,          \* the last rb_gc_impl_size_pool_id_for_size call and its result
    bug,            \* "none", or the message of the rb_bug that ended the process
    call,           \* the last call of an entry point that only returns or aborts
    config_call,    \* the last rb_gc_impl_config_set call and its result
    stress,         \* "never", "on" or "off": the calls of rb_gc_impl_stress_set so far
    init_calls,     \* invocations of mmtk_init_binding so far
    drain           \* the call of rb_gc_impl_shutdown_call_finalizer in progress:
                    \* its position, the vector handed over and the index of the
                    \* loop; fc0 and cleared0 remember free_count and data_cleared
                    \* as they were at the hand-over

\* The state of the allocator, the registry, the units and the lifecycle.
backend_vars == <<heap, cursor, candidates, mutators, cache, pc, frame, returned, nret,
                  free_count, data_cleared, shutdown_calls, free_objects_called,
                  gc_disabled, query, drain>>

\* The records of the entry points that keep no state in the backend.
call_vars == <<call, config_call, stress, init_calls>>

vars == <<heap, cursor, candidates, mutators, cache, pc, frame, returned, nret,
          free_count, data_cleared, shutdown_calls, free_objects_called,
          gc_disabled, query, bug, call, config_call, stress, init_calls, drain>>

(* ------------------------------ memory -------------------------------- *)

Store(h, addr, val) ==
    [a \in (DOMAIN h) \cup {addr} |-> IF a = addr THEN val ELSE h[a]]

AlignUp(addr, align) == ((addr + align - 1) \div align) * align

\* mmtk_alloc(cache, size, align, offset, semantics): the address of a fresh block.
mmtk_alloc(cur, size, align) == AlignUp(cur, align)

\* The allocator's bump pointer after that block.
mmtk_alloc_cursor(cur, size, align) == AlignUp(cur, align) + size

(* --------------------------- size classes ----------------------------- *)

\* new_obj_too_big without the test.
new_obj_too_big_unchecked(alloc_size) == FALSE

\* The test in front of rb_bug("too big").
new_obj_too_big(alloc_size) == alloc_size > MAX_ALLOC_SIZE

\* new_obj_size_class without the test for an exact fit.
RECURSIVE new_obj_size_class_no_equal(_, _)
new_obj_size_class_no_equal(alloc_size, i) ==
    IF i >= SIZE_POOL_COUNT THEN alloc_size
    ELSE IF alloc_size < size_pool_sizes[i + 1] THEN size_pool_sizes[i + 1]
    ELSE new_obj_size_class_no_equal(alloc_size, i + 1)

\* The loop of rb_gc_impl_new_obj over size_pool_sizes, from index i.
RECURSIVE new_obj_size_class(_, _)
new_obj_size_class(alloc_size, i) ==
    IF i >= SIZE_POOL_COUNT THEN alloc_size
    ELSE IF alloc_size = size_pool_sizes[i + 1] THEN alloc_size
    ELSE IF alloc_size < size_pool_sizes[i + 1] THEN size_pool_sizes[i + 1]
    ELSE new_obj_size_class(alloc_size, i + 1)

\* new_obj_block_size without the room for the size word.
new_obj_block_size_no_size_word(alloc_size) == alloc_size

\* The size rb_gc_impl_new_obj asks mmtk_alloc for.
new_obj_block_size(alloc_size) == alloc_size + WORD

\* size_pool_id_loop without the test for an exact fit.
RECURSIVE size_pool_id_loop_no_equal(_, _)
size_pool_id_loop_no_equal(size, i) ==
    IF i >= SIZE_POOL_COUNT THEN RB_BUG
    ELSE IF size < size_pool_sizes[i + 1] THEN i
    ELSE size_pool_id_loop_no_equal(size, i + 1)

\* The loop of rb_gc_impl_size_pool_id_for_size, from index i.
RECURSIVE size_pool_id_loop(_, _)
size_pool_id_loop(size, i) ==
    IF i >= SIZE_POOL_COUNT THEN RB_BUG
    ELSE IF size = size_pool_sizes[i + 1] THEN i
    ELSE IF size < size_pool_sizes[i + 1] THEN i
    ELSE size_pool_id_loop(size, i + 1)

\* rb_gc_impl_size_pool_id_for_size with a loop that stops one entry early.
RECURSIVE size_pool_id_loop_short(_, _)
size_pool_id_loop_short(size, i) ==
    IF i >= SIZE_POOL_COUNT - 1 THEN RB_BUG
    ELSE IF size = size_pool_sizes[i + 1] THEN i
    ELSE IF size < size_pool_sizes[i + 1] THEN i
    ELSE size_pool_id_loop_short(size, i + 1)

size_pool_id_for_size_short(size) == size_pool_id_loop_short(size, 0)

rb_gc_impl_size_pool_id_for_size(size) == size_pool_id_loop(size, 0)

rb_gc_impl_obj_slot_size(h, obj) == h[obj - WORD]

\* Variant: the largest size class is not allocatable.
rb_gc_impl_size_allocatable_p_strict(size) == size < 640

rb_gc_impl_size_allocatable_p(size) == size <= 640

(* ------------------------------ header -------------------------------- *)

\* Variant: the third inline value is kept only by objects larger than the
\* smallest size class.
new_obj_write_header_drops_v3(h, f) ==
    LET h0 == Store(h, f.alloc_obj - WORD, f.alloc_size)
        h1 == Store(h0, f.alloc_obj, f.flags)
        h2 == Store(h1, f.alloc_obj + WORD, f.klass)
        h3 == IF f.alloc_size > 16 THEN Store(h2, f.alloc_obj + 2 * WORD, f.v1) ELSE h2
        h4 == IF f.alloc_size > 24 THEN Store(h3, f.alloc_obj + 3 * WORD, f.v2) ELSE h3
        h5 == IF f.alloc_size > 40 THEN Store(h4, f.alloc_obj + 4 * WORD, f.v3) ELSE h4
    IN  h5

\* The stores of rb_gc_impl_new_obj into the block, in program order.
new_obj_write_header(h, f) ==
    LET h0 == Store(h, f.alloc_obj - WORD, f.alloc_size)
        h1 == Store(h0, f.alloc_obj, f.flags)
        h2 == Store(h1, f.alloc_obj + WORD, f.klass)
        h3 == IF f.alloc_size > 16 THEN Store(h2, f.alloc_obj + 2 * WORD, f.v1) ELSE h2
        h4 == IF f.alloc_size > 24 THEN Store(h3, f.alloc_obj + 3 * WORD, f.v2) ELSE h3
        h5 == IF f.alloc_size > 32 THEN Store(h4, f.alloc_obj + 4 * WORD, f.v3) ELSE h4
    IN  h5

(* ----------------------------- upcalls -------------------------------- *)

BUILTIN_TYPE(h, obj) == h[obj] % (T_MASK + 1)

\* The object's data pointer (the third inline word of a T_DATA object).
DATA_PTR(h, obj) == h[obj + 4 * WORD]

\* Upcall: does obj still need its cleanup to run at shutdown?
rb_gc_shutdown_call_finalizer_p(h, obj) ==
    /\ obj \in DOMAIN h
    /\ BUILTIN_TYPE(h, obj) = T_DATA
    /\ (obj + 4 * WORD) \in DOMAIN h
    /\ DATA_PTR(h, obj) # NULL

\* Upcall: run the cleanup of obj.
rb_gc_obj_free(fc, obj) ==
    [o \in (DOMAIN fc) \cup {obj} |->
        IF o = obj THEN (IF o \in DOMAIN fc THEN fc[o] ELSE 0) + 1 ELSE fc[o]]

FreeCount(fc, obj) == IF obj \in DOMAIN fc THEN fc[obj] ELSE 0

(* ----------------------------- registry ------------------------------- *)

mmtk_add_obj_free_candidate(cands, obj) == Append(cands, obj)

\* mmtk_get_all_obj_free_candidates hands the vector over and leaves the registry empty.
mmtk_get_all_obj_free_candidates(cands) == [vec |-> cands, registry |-> << >>]

mmtk_bind_mutator(muts) == Cardinality(muts) + 1

\* new_obj_register with the candidate added twice.
\* Variant: every object is registered, whatever the runtime answers.
new_obj_register_always(cands, h, obj) == mmtk_add_obj_free_candidate(cands, obj)

new_obj_register_twice(cands, h, obj) ==
    IF rb_gc_shutdown_call_finalizer_p(h, obj)
    THEN mmtk_add_obj_free_candidate(mmtk_add_obj_free_candidate(cands, obj), obj)
    ELSE cands

\* The registry after the registration step of rb_gc_impl_new_obj.
new_obj_register(cands, h, obj) ==
    IF rb_gc_shutdown_call_finalizer_p(h, obj)
    THEN mmtk_add_obj_free_candidate(cands, obj)
    ELSE cands

(* ------------------------------ Init ---------------------------------- *)

NoFrame ==
    [req |-> 0, alloc_size |-> 0, alloc_obj |-> NULL,
     klass |-> 0, flags |-> 0, v1 |-> 0, v2 |-> 0, v3 |-> 0, wb |-> FALSE,
     after_shutdown |-> FALSE, while_disabled |-> FALSE, stress_toggled |-> FALSE]

NoQuery == [size |-> 0, id |-> RB_BUG]

\* No call of rb_gc_impl_shutdown_call_finalizer is in progress.
NoDrain == [pc |-> "idle", vec |-> << >>, i |-> 0, fc0 |-> << >>, cleared0 |-> {}]

NoCall == [op |-> "none", arg |-> NULL, result |-> NULL]

\* rb_hash_new(): a hash without keys.
EmptyHash == [k \in {} |-> 0]

NoConfigCall == [called |-> FALSE, arg |-> EmptyHash, result |-> EmptyHash]

Init ==
    /\ heap = << >>
    /\ cursor = HeapBase
    /\ candidates = << >>
    /\ mutators = {}
    /\ cache = [u \in Units |-> NULL]
    /\ pc = [u \in Units |-> "idle"]
    /\ frame = [u \in Units |-> NoFrame]
    /\ returned = {}
    /\ nret = [u \in Units |-> 0]
    /\ free_count = << >>
    /\ data_cleared = {}
    /\ shutdown_calls = 0
    /\ free_objects_called = FALSE
    /\ gc_disabled = FALSE
    /\ query = NoQuery
    /\ bug = "none"
    /\ call = NoCall
    /\ config_call = NoConfigCall
    /\ stress = "never"
    /\ init_calls = 1
    /\ drain = NoDrain

\* A shutdown entry point has been called.
ShutdownBegun == shutdown_calls > 0 \/ free_objects_called

\* Blocks obtained from the allocator so far.
NBlocks == Cardinality(returned) + Cardinality({u \in Units : pc[u] \in {"header", "register"}})

(* ----------------------------- actions -------------------------------- *)

rb_gc_impl_ractor_cache_alloc(u) ==
    /\ bug = "none"
    /\ cache[u] = NULL
    /\ Cardinality(mutators) < MaxBinds
    /\ LET m == mmtk_bind_mutator(mutators) IN
        /\ mutators' = mutators \cup {m}
        /\ cache' = [cache EXCEPT ![u] = m]
    /\ UNCHANGED <<heap, cursor, candidates, pc, frame, returned, nret, free_count,
                   data_cleared, shutdown_calls, free_objects_called, gc_disabled,
                   query, bug>>
    /\ UNCHANGED <<call_vars, drain>>

\* The body is empty: the mutator stays bound.  The unit drops its handle.
rb_gc_impl_ractor_cache_free(u) ==
    /\ bug = "none"
    /\ pc[u] = "idle"
    /\ cache[u] # NULL
    /\ cache' = [cache EXCEPT ![u] = NULL]
    /\ UNCHANGED <<heap, cursor, candidates, mutators, pc, frame, returned, nret,
                   free_count, data_cleared, shutdown_calls, free_objects_called,
                   gc_disabled, query, bug>>
    /\ UNCHANGED <<call_vars, drain>>

\* rb_gc_impl_new_obj up to and including mmtk_alloc and alloc_obj++.
new_obj_alloc(u, a, size) ==
    /\ bug = "none"
    /\ pc[u] = "idle"
    /\ cache[u] # NULL
    /\ IF new_obj_too_big(size)
       THEN /\ bug' = "too big"
            /\ pc' = [pc EXCEPT ![u] = "bug"]
            /\ frame' = [frame EXCEPT ![u] =
                   [req |-> size, alloc_size |-> size, alloc_obj |-> NULL,
                    klass |-> a.klass, flags |-> a.flags,
                    v1 |-> a.v1, v2 |-> a.v2, v3 |-> a.v3, wb |-> a.wb,
                    after_shutdown |-> ShutdownBegun, while_disabled |-> gc_disabled,
                        stress_toggled |-> stress = "off"]]
            /\ UNCHANGED cursor
       ELSE LET alloc_size == new_obj_size_class(size, 0)
                block == mmtk_alloc(cursor, new_obj_block_size(alloc_size), MMTK_MIN_OBJ_ALIGN)
            IN  /\ cursor' = mmtk_alloc_cursor(cursor, new_obj_block_size(alloc_size),
                                               MMTK_MIN_OBJ_ALIGN)
                /\ frame' = [frame EXCEPT ![u] =
                       [req |-> size, alloc_size |-> alloc_size, alloc_obj |-> block + WORD,
                        klass |-> a.klass, flags |-> a.flags,
                        v1 |-> a.v1, v2 |-> a.v2, v3 |-> a.v3, wb |-> a.wb,
                        after_shutdown |-> ShutdownBegun, while_disabled |-> gc_disabled,
                        stress_toggled |-> stress = "off"]]
                /\ pc' = [pc EXCEPT ![u] = "header"]
                /\ UNCHANGED bug
    /\ UNCHANGED <<heap, candidates, mutators, cache, returned, nret, free_count,
                   data_cleared, shutdown_calls, free_objects_called, gc_disabled, query>>
    /\ UNCHANGED <<call_vars, drain>>

\* rb_gc_impl_new_obj: the stores into the block.
new_obj_header(u) ==
    /\ bug = "none"
    /\ pc[u] = "header"
    /\ heap' = new_obj_write_header(heap, frame[u])
    /\ pc' = [pc EXCEPT ![u] = "register"]
    /\ UNCHANGED <<cursor, candidates, mutators, cache, frame, returned, nret, free_count,
                   data_cleared, shutdown_calls, free_objects_called, gc_disabled,
                   query, bug>>
    /\ UNCHANGED <<call_vars, drain>>

\* rb_gc_impl_new_obj: the registration and the return.
new_obj_return(u) ==
    /\ bug = "none"
    /\ pc[u] = "register"
    /\ LET obj == frame[u].alloc_obj
           reg == rb_gc_shutdown_call_finalizer_p(heap, obj)
       IN  /\ candidates' = new_obj_register(candidates, heap, obj)
           /\ returned' = returned \cup
                  {[unit |-> u, k |-> nret[u] + 1, obj |-> obj, registered |-> reg,
                    req |-> frame[u].req, alloc_size |-> frame[u].alloc_size,
                    klass |-> frame[u].klass, flags |-> frame[u].flags,
                    v1 |-> frame[u].v1, v2 |-> frame[u].v2, v3 |-> frame[u].v3,
                    wb |-> frame[u].wb]}
    /\ nret' = [nret EXCEPT ![u] = @ + 1]
    /\ frame' = [frame EXCEPT ![u] = NoFrame]
    /\ pc' = [pc EXCEPT ![u] = "idle"]
    /\ UNCHANGED <<heap, cursor, mutators, cache, free_count, data_cleared,
                   shutdown_calls, free_objects_called, gc_disabled, query, bug>>
    /\ UNCHANGED <<call_vars, drain>>

\* Variant: the object is freed without asking the runtime.
shutdown_loop_unchecked(vec, i, h, fc) == rb_gc_obj_free(fc, vec[i + 1])

\* One iteration of the loop of rb_gc_impl_shutdown_call_finalizer, at index i:
\* the numbers of rb_gc_obj_free calls after it.
shutdown_loop(vec, i, h, fc) ==
    LET obj == vec[i + 1] IN
    IF rb_gc_shutdown_call_finalizer_p(h, obj) THEN rb_gc_obj_free(fc, obj) ELSE fc

\* rb_gc_impl_shutdown_call_finalizer is entered and
\* mmtk_get_all_obj_free_candidates hands the vector over. The loop that follows
\* holds no lock: the units and the runtime run between its iterations.
shutdown_get_all ==
    /\ bug = "none"
    /\ drain.pc = "idle"
    /\ shutdown_calls < MaxShutdown
    /\ LET got == mmtk_get_all_obj_free_candidates(candidates) IN
        /\ candidates' = got.registry
        /\ drain' = [pc |-> "loop", vec |-> got.vec, i |-> 0,
                     fc0 |-> free_count, cleared0 |-> data_cleared]
    /\ shutdown_calls' = shutdown_calls + 1
    /\ UNCHANGED <<heap, cursor, mutators, cache, pc, frame, returned, nret, free_count,
                   data_cleared, free_objects_called, gc_disabled, query, bug>>
    /\ UNCHANGED call_vars

\* One iteration: the runtime is asked about the entry and frees it if it says so.
shutdown_loop_step ==
    /\ bug = "none"
    /\ drain.pc = "loop"
    /\ drain.i < Len(drain.vec)
    /\ free_count' = shutdown_loop(drain.vec, drain.i, heap, free_count)
    /\ drain' = [drain EXCEPT !.i = @ + 1]
    /\ UNCHANGED <<heap, cursor, candidates, mutators, cache, pc, frame, returned, nret,
                   data_cleared, shutdown_calls, free_objects_called, gc_disabled,
                   query, bug>>
    /\ UNCHANGED call_vars

\* The loop is over: mmtk_free_raw_vec_of_obj_ref, and the call returns.
shutdown_return ==
    /\ bug = "none"
    /\ drain.pc = "loop"
    /\ drain.i >= Len(drain.vec)
    /\ drain' = NoDrain
    /\ UNCHANGED <<heap, cursor, candidates, mutators, cache, pc, frame, returned, nret,
                   free_count, data_cleared, shutdown_calls, free_objects_called,
                   gc_disabled, query, bug>>
    /\ UNCHANGED call_vars

\* The steps of a call of rb_gc_impl_shutdown_call_finalizer.
rb_gc_impl_shutdown_call_finalizer ==
    \/ shutdown_get_all
    \/ shutdown_loop_step
    \/ shutdown_return

\* The body is empty.
rb_gc_impl_shutdown_free_objects ==
    /\ bug = "none"
    /\ ~free_objects_called
    /\ free_objects_called' = TRUE
    /\ UNCHANGED <<heap, cursor, candidates, mutators, cache, pc, frame, returned, nret,
                   free_count, data_cleared, shutdown_calls, gc_disabled, query, bug>>
    /\ UNCHANGED <<call_vars, drain>>

\* The body is empty.
rb_gc_impl_gc_enable ==
    /\ bug = "none"
    /\ gc_disabled' = FALSE
    /\ UNCHANGED <<heap, cursor, candidates, mutators, cache, pc, frame, returned, nret,
                   free_count, data_cleared, shutdown_calls, free_objects_called,
                   query, bug>>
    /\ UNCHANGED <<call_vars, drain>>

\* The body is empty.
rb_gc_impl_gc_disable(finish_current_gc) ==
    /\ bug = "none"
    /\ gc_disabled' = TRUE
    /\ UNCHANGED <<heap, cursor, candidates, mutators, cache, pc, frame, returned, nret,
                   free_count, data_cleared, shutdown_calls, free_objects_called,
                   query, bug>>
    /\ UNCHANGED <<call_vars, drain>>

rb_gc_impl_gc_enabled_p == TRUE

\* A call of rb_gc_impl_size_pool_id_for_size.
size_pool_id_for_size(size) ==
    /\ bug = "none"
    /\ LET id == rb_gc_impl_size_pool_id_for_size(size) IN
        /\ query' = [size |-> size, id |-> id]
        /\ bug' = IF id = RB_BUG THEN "size too big" ELSE bug
    /\ UNCHANGED <<heap, cursor, candidates, mutators, cache, pc, frame, returned, nret,
                   free_count, data_cleared, shutdown_calls, free_objects_called,
                   gc_disabled>>
    /\ UNCHANGED <<call_vars, drain>>

\* The runtime resets the data pointer of an object it owns.
RuntimeClearData(obj) ==
    /\ bug = "none"
    /\ obj \in {r.obj : r \in returned}
    /\ obj \notin data_cleared
    /\ BUILTIN_TYPE(heap, obj) = T_DATA
    /\ heap' = Store(heap, obj + 4 * WORD, NULL)
    /\ data_cleared' = data_cleared \cup {obj}
    /\ UNCHANGED <<cursor, candidates, mutators, cache, pc, frame, returned, nret,
                   free_count, shutdown_calls, free_objects_called, gc_disabled,
                   query, bug>>
    /\ UNCHANGED <<call_vars, drain>>

(* ------------- entry points that only return or abort ----------------- *)

\* rb_bug("unimplemented"): the process aborts inside the entry point op.
unimplemented(op, arg) ==
    /\ bug = "none"
    /\ call' = [op |-> op, arg |-> arg, result |-> RB_BUG]
    /\ bug' = "unimplemented"
    /\ UNCHANGED <<backend_vars, config_call, stress, init_calls>>

\* Variant: the entry point returns without doing anything.
rb_gc_impl_mark_returns(obj) ==
    /\ bug = "none"
    /\ call' = [op |-> "mark", arg |-> obj, result |-> NULL]
    /\ UNCHANGED <<backend_vars, bug, config_call, stress, init_calls>>

rb_gc_impl_mark(obj) == unimplemented("mark", obj)

rb_gc_impl_mark_and_move(ptr) == unimplemented("mark_and_move", ptr)

rb_gc_impl_mark_and_pin(obj) == unimplemented("mark_and_pin", obj)

rb_gc_impl_mark_maybe(obj) == unimplemented("mark_maybe", obj)

rb_gc_impl_mark_weak(ptr) == unimplemented("mark_weak", ptr)

rb_gc_impl_remove_weak(parent_obj, ptr) == unimplemented("remove_weak", parent_obj)

rb_gc_impl_objspace_mark == unimplemented("objspace_mark", NULL)

\* mmtk_init_binding: one more invocation, with a builder of its own.
mmtk_init_binding(n) == n + 1

\* The initialisation is guarded inside the library: invoking it when the binding
\* is already initialised is a defect that ends the process.
mmtk_init_binding_rejects(n) == n >= 1

\* A call of rb_gc_impl_objspace_alloc after the one that constructed the backend.
rb_gc_impl_objspace_alloc ==
    /\ bug = "none"
    /\ init_calls' = mmtk_init_binding(init_calls)
    /\ bug' = IF mmtk_init_binding_rejects(init_calls)
              THEN "binding already initialized" ELSE bug
    /\ call' = [op |-> "objspace_alloc", arg |-> NULL, result |-> NULL]
    /\ UNCHANGED <<backend_vars, config_call, stress>>

\* A call of rb_gc_impl_stress_set: the body is empty; stress only remembers
\* whether the mode was asked to be on, and then off again.
rb_gc_impl_stress_set(flag) ==
    /\ bug = "none"
    /\ stress' = IF flag THEN "on" ELSE IF stress = "never" THEN "never" ELSE "off"
    /\ UNCHANGED <<backend_vars, bug, call, config_call, init_calls>>

\* Variant: the mode reads as on once it was ever switched on.
rb_gc_impl_stress_get_latched == stress # "never"

\* Qfalse.
rb_gc_impl_stress_get == FALSE

\* The configuration read back: always a new hash without keys.
rb_gc_impl_config_get == EmptyHash

\* The value handed back to the caller of rb_gc_impl_config_set.
rb_gc_impl_config_set(hash) == hash

\* The maps the runtime passes: none, and one key each that the backend does not
\* report in rb_gc_impl_config_get.
ConfigHashes == {EmptyHash, "rgengc_allow_full_mark" :> 1, "no_such_key" :> 2}

\* A call of rb_gc_impl_config_set.
config_set(hash) ==
    /\ bug = "none"
    /\ config_call' = [called |-> TRUE, arg |-> hash,
                       result |-> rb_gc_impl_config_set(hash)]
    /\ UNCHANGED <<backend_vars, bug, call, stress, init_calls>>

rb_gc_impl_object_moved_p(obj) == unimplemented("object_moved_p", obj)

rb_gc_impl_location(value) == unimplemented("location", value)

\* The objects and addresses the runtime passes to the tracing and compaction
\* entry points.
TraceArgs == {NULL} \cup {r.obj : r \in returned}

(* --------------------------- specifications --------------------------- *)

\* The entry points with state, called by one unit.
Next ==
    \/ rb_gc_impl_ractor_cache_alloc(1)
    \/ rb_gc_impl_ractor_cache_free(1)
    \/ \E rq \in Requests : NBlocks < MaxObjs /\ new_obj_alloc(1, rq.args, rq.size)
    \/ new_obj_header(1)
    \/ new_obj_return(1)
    \/ rb_gc_impl_gc_enable
    \/ \E f \in BOOLEAN : rb_gc_impl_gc_disable(f)
    \/ rb_gc_impl_shutdown_call_finalizer
    \/ rb_gc_impl_shutdown_free_objects

Spec == Init /\ [][Next]_vars

\* The units allocate concurrently, each from its own cache.
NextUnits ==
    \/ \E u \in Units : rb_gc_impl_ractor_cache_alloc(u)
    \/ \E u \in Units, rq \in Requests :
           NBlocks < MaxObjs /\ new_obj_alloc(u, rq.args, rq.size)
    \/ \E u \in Units : new_obj_header(u)
    \/ \E u \in Units : new_obj_return(u)

SpecUnits == Init /\ [][NextUnits]_vars

\* The size of a sweep: its calls all use the same one.
SweepSize(size) ==
    /\ query # NoQuery => size = query.size
    /\ pc[1] # "idle" => size = frame[1].req
    /\ \A r \in returned : size = r.req

\* One unit asks for the pool of a size and allocates an object of that size, in
\* either order, for every size up to MaxReq.
NextSizes ==
    \/ rb_gc_impl_ractor_cache_alloc(1)
    \/ \E size \in 0..MaxReq :
           query = NoQuery /\ SweepSize(size) /\ size_pool_id_for_size(size)
    \/ \E a \in Args, size \in 0..MaxReq :
           NBlocks < 1 /\ SweepSize(size) /\ new_obj_alloc(1, a, size)
    \/ new_obj_header(1)
    \/ new_obj_return(1)

SpecSizes == Init /\ [][NextSizes]_vars

\* One unit allocates; the runtime calls the entry points that only return or
\* abort, in any state the allocations reach.
NextCalls ==
    \/ rb_gc_impl_ractor_cache_alloc(1)
    \/ \E rq \in Requests : NBlocks < MaxObjs /\ new_obj_alloc(1, rq.args, rq.size)
    \/ new_obj_header(1)
    \/ new_obj_return(1)
    \/ \E obj \in TraceArgs : rb_gc_impl_mark(obj)
    \/ \E ptr \in TraceArgs : rb_gc_impl_mark_and_move(ptr)
    \/ \E obj \in TraceArgs : rb_gc_impl_mark_and_pin(obj)
    \/ \E obj \in TraceArgs : rb_gc_impl_mark_maybe(obj)
    \/ \E ptr \in TraceArgs : rb_gc_impl_mark_weak(ptr)
    \/ \E obj \in TraceArgs : rb_gc_impl_remove_weak(obj, obj + 2 * WORD)
    \/ rb_gc_impl_objspace_mark
    \/ \E obj \in TraceArgs : rb_gc_impl_object_moved_p(obj)
    \/ \E value \in TraceArgs : rb_gc_impl_location(value)
    \/ rb_gc_impl_objspace_alloc
    \/ \E hash \in ConfigHashes : config_set(hash)
    \/ \E flag \in BOOLEAN : rb_gc_impl_stress_set(flag)

SpecCalls == Init /\ [][NextCalls]_vars

\* One unit allocates objects of every kind, with either wb_protected, and the
\* registry is drained on a thread of its own.
NextRegistry ==
    \/ rb_gc_impl_ractor_cache_alloc(1)
    \/ \E a \in ArgsAll : NBlocks < MaxObjs /\ new_obj_alloc(1, a, 40)
    \/ new_obj_header(1)
    \/ new_obj_return(1)
    \/ rb_gc_impl_shutdown_call_finalizer

SpecRegistry == Init /\ [][NextRegistry]_vars

\* One unit allocates, the runtime resets data pointers, and the registry is
\* drained on a thread of its own: the three run interleaved.
NextDrain ==
    \/ rb_gc_impl_ractor_cache_alloc(1)
    \/ \E rq \in Requests : NBlocks < MaxObjs /\ new_obj_alloc(1, rq.args, rq.size)
    \/ new_obj_header(1)
    \/ new_obj_return(1)
    \/ shutdown_get_all
    \/ shutdown_loop_step
    \/ shutdown_return
    \/ \E r \in returned : RuntimeClearData(r.obj)

SpecDrain == Init /\ [][NextDrain]_vars

(* ------------------------------ claims -------------------------------- *)

\* The finite entries of the size-class table.
SizeClasses == {size_pool_sizes[i] : i \in 1..5}

\* The smallest entry of the table that is >= s (for s <= 640).
SmallestClassAtLeast(s) ==
    CHOOSE c \in SizeClasses : c >= s /\ \A d \in SizeClasses : d >= s => c <= d

\* The number of times obj occurs in the vector vec.
Occurrences(vec, obj) == Cardinality({i \in 1..Len(vec) : vec[i] = obj})

\* Unit u enters rb_gc_impl_new_obj in this step.
NewObjCalled(u) == pc[u] = "idle" /\ pc'[u] # "idle"

\* C1: every call of rb_gc_impl_new_obj with a size s <= 640 commits the smallest
\* table entry >= s and does not abort, and rb_gc_impl_obj_slot_size of the object
\* it returned is that entry.
C1_SmallestClassCommitted ==
    /\ \A u \in Units : (pc[u] # "idle" /\ frame[u].req <= 640) =>
           /\ bug # "too big"
           /\ frame[u].alloc_size = SmallestClassAtLeast(frame[u].req)
    /\ \A r \in returned :
           /\ r.req <= 640
           /\ r.alloc_size = SmallestClassAtLeast(r.req)
           /\ rb_gc_impl_obj_slot_size(heap, r.obj) = SmallestClassAtLeast(r.req)

\* C1 witness: a request of 41 bytes has returned an object whose slot size is 80.
C1_Witness ==
    \E r \in returned : r.req = 41 /\ rb_gc_impl_obj_slot_size(heap, r.obj) = 80

\* C2: a call of rb_gc_impl_new_obj with a size > 640 ends in rb_bug("too big")
\* with the allocator, the heap, the registry and the returned objects unchanged,
\* and no object is ever returned for such a size.
C2_TooBigIsFatal ==
    [][/\ \A u \in Units :
              (NewObjCalled(u) /\ frame'[u].req > 640) =>
                  /\ bug' = "too big"
                  /\ pc'[u] = "bug"
                  /\ UNCHANGED <<heap, cursor, candidates, returned, nret>>
       /\ \A r \in returned' : r.req <= 640]_vars

\* C2 witness: a request of 641 bytes has aborted the process.
C2_Witness ==
    bug = "too big" /\ pc[1] = "bug" /\ frame[1].req = 641 /\ returned = {}

\* Unit u's call of rb_gc_impl_new_obj returns an object in this step.
NewObjReturns(u) == nret'[u] > nret[u]

\* The steps of a call of rb_gc_impl_shutdown_call_finalizer, as seen in a step.
DrainHandsOver == drain.pc = "idle" /\ drain'.pc = "loop"
DrainIterates == drain.pc = "loop" /\ drain'.pc = "loop" /\ drain'.i = drain.i + 1
DrainReturns == drain.pc = "loop" /\ drain'.pc = "idle"

\* The number of rb_gc_obj_free calls the call in progress has made on obj.
FreedByDrain(obj) == FreeCount(free_count, obj) - FreeCount(drain.fc0, obj)

\* C3: allocations followed by a call of rb_gc_impl_shutdown_call_finalizer: the
\* call is handed the whole registry, which at the first call holds every object
\* registered at allocation; each iteration of its loop invokes rb_gc_obj_free on
\* its entry exactly when the runtime still finds the entry eligible, on nothing
\* else, and nothing else invokes it; when the call returns it has gone through
\* the whole vector, and has freed exactly once every registered object that is
\* still eligible, and not at all every registered object that was no longer
\* eligible when the call began.
C3_DrainFreesEligibleOnce ==
    [][/\ DrainHandsOver =>
              /\ drain'.vec = candidates /\ drain'.i = 0
              /\ shutdown_calls = 0 =>
                     \A r \in returned : r.registered => Occurrences(candidates, r.obj) = 1
       /\ DrainIterates =>
              \A o \in {r.obj : r \in returned} :
                  FreeCount(free_count', o) - FreeCount(free_count, o) =
                      IF /\ o = drain.vec[drain.i + 1]
                         /\ rb_gc_shutdown_call_finalizer_p(heap, o)
                      THEN 1 ELSE 0
       /\ free_count' # free_count => DrainIterates
       /\ DrainReturns =>
              /\ drain.i = Len(drain.vec)
              /\ \A r \in returned :
                     (r.registered /\ Occurrences(drain.vec, r.obj) > 0) =>
                         /\ FreedByDrain(r.obj) \in {0, 1}
                         /\ rb_gc_shutdown_call_finalizer_p(heap, r.obj) =>
                                FreedByDrain(r.obj) = 1
                         /\ r.obj \in drain.cleared0 => FreedByDrain(r.obj) = 0]_vars

\* C3 witness: after one drain, one registered object has been freed once and
\* another registered object, whose data pointer the runtime had reset, not at all.
C3_Witness ==
    /\ shutdown_calls = 1
    /\ drain.pc = "idle"
    /\ candidates = << >>
    /\ \E r1, r2 \in returned :
           /\ r1.registered /\ FreeCount(free_count, r1.obj) = 1
           /\ r2.registered /\ r2.obj \in data_cleared
           /\ FreeCount(free_count, r2.obj) = 0

\* A drain is about to return; the runtime reset the data pointer of one of its
\* entries after the hand-over and before the loop reached it: it was not freed.
C3_WitnessClearedDuringDrain ==
    /\ drain.pc = "loop" /\ drain.i = Len(drain.vec)
    /\ \E k \in 1..Len(drain.vec) :
           /\ drain.vec[k] \in data_cleared \ drain.cleared0
           /\ FreedByDrain(drain.vec[k]) = 0

\* C4: the hand-over of a call of rb_gc_impl_shutdown_call_finalizer leaves the
\* registry empty, and until the call returns only an allocation that returns
\* meanwhile puts an object into it, never one of the handed-over entries: with
\* no allocation the registry is empty after the call. A call that is handed an
\* empty registry processes no record and invokes no cleanup, and no object's
\* cleanup is invoked more than once over all calls.
C4_DrainIdempotent ==
    [][/\ DrainHandsOver =>
              /\ candidates' = << >>
              /\ Len(drain'.vec) = Len(candidates)
       /\ (drain.pc = "loop" /\ candidates' # candidates) =>
              /\ \E u \in Units : NewObjReturns(u)
              /\ \A k \in 1..Len(candidates'), m \in 1..Len(drain.vec) :
                     candidates'[k] # drain.vec[m]
       /\ (drain.pc = "loop" /\ drain.vec = << >>) =>
              /\ free_count' = free_count
              /\ drain'.pc = "loop" => drain' = drain
       /\ \A o \in DOMAIN free_count' : free_count'[o] <= 1]_vars

\* C4 witness: a second drain was handed an empty registry, after the first one
\* had freed an object; that object has been freed once.
C4_Witness ==
    /\ shutdown_calls = 2
    /\ drain.pc = "loop" /\ drain.vec = << >>
    /\ candidates = << >>
    /\ \E r \in returned : r.registered /\ FreeCount(free_count, r.obj) = 1

\* A drain has returned and the registry holds an object: its allocation returned
\* while the drain was in progress.
C4_WitnessRegisteredDuringDrain ==
    /\ shutdown_calls = 1
    /\ drain.pc = "idle"
    /\ candidates # << >>

\* C5: once rb_gc_impl_shutdown_call_finalizer or rb_gc_impl_shutdown_free_objects
\* has been called, no later call of rb_gc_impl_new_obj returns an object.
C5_NoAllocationAfterShutdown ==
    [][\A u \in Units : ~(frame[u].after_shutdown /\ NewObjReturns(u))]_vars

\* C6: while the last of gc_enable / gc_disable called is gc_disable,
\* rb_gc_impl_gc_enabled_p is false and no call of rb_gc_impl_new_obj made then
\* returns an object; otherwise rb_gc_impl_gc_enabled_p is true.
C6_DisabledBlocksAllocation ==
    [][/\ gc_disabled' <=> ~rb_gc_impl_gc_enabled_p
       /\ \A u \in Units : ~(frame[u].while_disabled /\ NewObjReturns(u))]_vars

\* C6, the allocation alone: no call of rb_gc_impl_new_obj made while disabled
\* returns an object.
C6_NoAllocationWhileDisabled ==
    [][\A u \in Units : ~(frame[u].while_disabled /\ NewObjReturns(u))]_vars

\* The number of calls of rb_gc_impl_new_obj that have returned, over units 1..n.
RECURSIVE ReturnedCalls(_)
ReturnedCalls(n) == IF n = 0 THEN 0 ELSE nret[n] + ReturnedCalls(n - 1)

\* The bytes of an object: its size word and its slot.
Extent(r) == (r.obj - 8)..(r.obj + rb_gc_impl_obj_slot_size(heap, r.obj) - 1)

\* The words 0..4 of the object hold the arguments of the call, word -1 its class.
HeaderHolds(r) ==
    /\ {r.obj - 8, r.obj, r.obj + 8, r.obj + 16, r.obj + 24, r.obj + 32} \subseteq DOMAIN heap
    /\ heap[r.obj - 8] = r.alloc_size
    /\ heap[r.obj] = r.flags
    /\ heap[r.obj + 8] = r.klass
    /\ heap[r.obj + 16] = r.v1
    /\ heap[r.obj + 24] = r.v2
    /\ heap[r.obj + 32] = r.v3

\* C7: when units allocate concurrently from their own caches, the objects
\* returned are as many as the calls that returned, their extents are pairwise
\* disjoint, every header holds the class and the arguments of its own call, and
\* every object that needed registration is in the registry exactly once.
C7_ConcurrentAllocationsDisjoint ==
    /\ Cardinality({r.obj : r \in returned}) = ReturnedCalls(NUnits)
    /\ Cardinality(returned) = ReturnedCalls(NUnits)
    /\ \A r \in returned : HeaderHolds(r)
    /\ \A r1, r2 \in returned : r1 # r2 => Extent(r1) \cap Extent(r2) = {}
    /\ \A r \in returned :
           /\ r.registered <=> (r.flags % 32 = T_DATA /\ r.v3 # 0)
           /\ Occurrences(candidates, r.obj) = IF r.registered THEN 1 ELSE 0
    /\ \A i \in 1..Len(candidates) : candidates[i] \in {r.obj : r \in returned}

\* C7 witness: MaxObjs objects have been returned to two units whose allocations
\* interleaved, while the units held different caches.
C7_Witness ==
    /\ Cardinality(returned) = MaxObjs
    /\ \E r1, r2, r3 \in returned :
           /\ r1.unit = r3.unit /\ r1.unit # r2.unit
           /\ r1.obj < r2.obj /\ r2.obj < r3.obj
           /\ cache[r1.unit] # cache[r2.unit]
           /\ r1.registered

\* C8: for every object returned for a request s <= 640 classified to class C, the
\* pool index of its slot size, of C and of s are the same index.
C8_PoolIdRoundTrip ==
    \A r \in returned :
        /\ rb_gc_impl_size_pool_id_for_size(rb_gc_impl_obj_slot_size(heap, r.obj)) # RB_BUG
        /\ rb_gc_impl_size_pool_id_for_size(rb_gc_impl_obj_slot_size(heap, r.obj))
               = rb_gc_impl_size_pool_id_for_size(r.alloc_size)
        /\ rb_gc_impl_size_pool_id_for_size(r.alloc_size)
               = rb_gc_impl_size_pool_id_for_size(r.req)

\* C8 witness: an object requested with 41 bytes has been returned, and its slot
\* size maps to pool 1.
C8_Witness ==
    \E r \in returned :
        /\ r.req = 41
        /\ rb_gc_impl_size_pool_id_for_size(rb_gc_impl_obj_slot_size(heap, r.obj)) = 1

\* C9: rb_gc_impl_size_pool_id_for_size returns for a size <= 640 the index in
\* 0..4 of the smallest table entry >= size, and for a size > 640 it calls rb_bug
\* and returns nothing; it never returns the index of the 0 sentinel.
C9_PoolIdIsIndexOfSmallestClass ==
    query # NoQuery =>
        /\ query.id # 5
        /\ IF query.size <= 640
           THEN /\ query.id \in 0..4
                /\ size_pool_sizes[query.id + 1] = SmallestClassAtLeast(query.size)
                /\ bug = "none"
           ELSE /\ query.id = RB_BUG
                /\ bug = "size too big"

\* C9 witness: the pool of 640 bytes has been asked for and is 4.
C9_Witness == query # NoQuery /\ query.size = 640 /\ query.id = 4

\* C9 witness of the fatal case: the pool of 641 bytes has been asked for.
C9_WitnessFatal == query # NoQuery /\ query.size = 641 /\ bug = "size too big"

\* C10: the mutators bound in the backend are exactly the caches created and not
\* yet destroyed, and a mutator is bound only by rb_gc_impl_ractor_cache_alloc,
\* never by an allocation.
C10_MutatorsAreLiveCaches ==
    [][/\ mutators' = {cache'[u] : u \in {v \in Units : cache'[v] # NULL}}
       /\ mutators' # mutators => (pc' = pc /\ \E u \in Units : cache[u] = NULL /\ cache'[u] # NULL)]_vars

\* The names under which the tracing entry points record their call.
TracingOps == {"mark", "mark_and_move", "mark_and_pin", "mark_maybe", "mark_weak",
               "remove_weak", "objspace_mark"}

\* C11: a call of any tracing entry point (mark, mark_and_move, mark_and_pin,
\* mark_maybe, mark_weak, remove_weak, objspace_mark) aborts the process with
\* "unimplemented" in whatever state it is made: it does not return (no step
\* follows it), it is not a silent no-op, and it changes no object, block,
\* registry or lifecycle state before aborting.
C11_TracingAborts ==
    [][/\ bug # "unimplemented"
       /\ (call' # call /\ call'.op \in TracingOps) =>
              /\ bug' = "unimplemented"
              /\ call'.result = RB_BUG
              /\ UNCHANGED <<backend_vars, config_call, stress, init_calls>>]_vars

C11_Witness ==
    /\ bug = "unimplemented"
    /\ call.op = "remove_weak"
    /\ call.arg \in {r.obj : r \in returned}
    /\ candidates # << >>

\* C12: the backend does not move objects, so rb_gc_impl_object_moved_p returns
\* false (0) for every object and rb_gc_impl_location returns its argument
\* unchanged, in every state; neither call ends the process.
C12_CompactionQueriesTrivial ==
    /\ call.op = "object_moved_p" => (bug = "none" /\ call.result = 0)
    /\ call.op = "location" => (bug = "none" /\ call.result = call.arg)

\* C13: the initialisation of the backend is guarded against repetition: in any
\* run mmtk_init_binding is invoked at most once, so a second call of
\* rb_gc_impl_objspace_alloc does not initialise the global binding again.
C13_InitialisedAtMostOnce == init_calls <= 1

\* C14: a call of rb_gc_impl_config_set with a map that holds a key the backend
\* does not know is rejected as a whole: the caller is told of the rejection
\* instead of getting its map back as accepted, no key is applied, and
\* rb_gc_impl_config_get reads the same configuration after the call as before.
C14_UnknownKeyRejected ==
    (/\ config_call.called
     /\ \E k \in DOMAIN config_call.arg : k \notin DOMAIN rb_gc_impl_config_get)
        => /\ config_call.result # config_call.arg
           /\ rb_gc_impl_config_get = EmptyHash

\* C15: switching stress mode on and off again leaves nothing behind: once
\* rb_gc_impl_stress_set(true) has been followed by rb_gc_impl_stress_set(false),
\* rb_gc_impl_stress_get returns false; a call of rb_gc_impl_stress_set changes
\* nothing of the allocator, the registry or the units; and every
\* rb_gc_impl_new_obj called afterwards returns what it returns when the mode
\* was never touched: the smallest size class that fits the request, the header
\* with the arguments, and a registration exactly when the object needs cleanup.
C15_StressToggleLeavesNoResidue ==
    [][/\ stress' = "off" => (rb_gc_impl_stress_get = FALSE)'
       /\ stress' # stress => UNCHANGED <<backend_vars, bug>>
       /\ \A u \in Units :
              (frame[u].stress_toggled /\ NewObjReturns(u)) =>
                  \E r \in returned' \ returned :
                      /\ r.unit = u
                      /\ r.alloc_size = SmallestClassAtLeast(r.req)
                      /\ HeaderHolds(r)'
                      /\ r.registered <=> (r.flags % 32 = T_DATA /\ r.v3 # NULL)
                      /\ Occurrences(candidates', r.obj) =
                             Occurrences(candidates, r.obj) + IF r.registered THEN 1 ELSE 0]_vars

C15_Witness ==
    /\ stress = "off"
    /\ pc[1] = "register"
    /\ frame[1].stress_toggled
    /\ frame[1].flags = T_DATA
    /\ heap[frame[1].alloc_obj - WORD] = 40
    /\ returned # {}

\* C16: rb_gc_impl_new_obj registers the object it returns exactly when
\* rb_gc_shutdown_call_finalizer_p answers true for it once its header is
\* written, that is when it is a T_DATA object with a data pointer, whatever
\* wb_protected is, and registers it once; in every reachable state no object is
\* twice in the registry and every entry of the registry is an object some
\* earlier allocation returned.
C16_RegisteredIffNeedsCleanup ==
    [][/\ \A u \in Units :
              NewObjReturns(u) =>
                  LET obj == frame[u].alloc_obj
                      needs == frame[u].flags % (T_MASK + 1) = T_DATA /\ frame[u].v3 # NULL
                  IN  /\ heap[obj] = frame[u].flags
                      /\ heap[obj + 4 * WORD] = frame[u].v3
                      /\ needs <=> rb_gc_shutdown_call_finalizer_p(heap, obj)
                      /\ candidates' = IF needs THEN Append(candidates, obj) ELSE candidates
                      /\ \E r \in returned' \ returned : r.obj = obj /\ r.registered = needs
       /\ \A r1, r2 \in returned' :
              (r1.flags = r2.flags /\ r1.v3 = r2.v3) => r1.registered = r2.registered
       /\ \A i, j \in 1..Len(candidates') : candidates'[i] = candidates'[j] => i = j
       /\ \A i \in 1..Len(candidates') : candidates'[i] \in {r.obj : r \in returned'}]_vars

C16_Witness ==
    /\ \E r1, r2 \in returned :
           /\ r1.flags = T_DATA /\ r2.flags = T_DATA
           /\ r1.wb /\ ~r2.wb
           /\ r1.registered /\ r2.registered
           /\ Occurrences(candidates, r1.obj) = 1 /\ Occurrences(candidates, r2.obj) = 1
    /\ \E r \in returned :
           /\ r.flags = T_OBJECT /\ ~r.wb /\ ~r.registered
           /\ Occurrences(candidates, r.obj) = 0

\* C17: the header does not depend on the size: for every request s <= 640 the
\* returned object has the committed size class in the word before it, flags in
\* word 0, klass in word 1 and v1, v2, v3 in words 2, 3, 4. The committed size is
\* never below 40, so the tests > 16, > 24 and > 32 before the three inline
\* stores always pass and no inline value is left out.
C17_HeaderLayoutComplete ==
    /\ \A u \in Units :
           pc[u] \in {"header", "register"} =>
               /\ frame[u].alloc_size >= 40
               /\ frame[u].alloc_size > 16 /\ frame[u].alloc_size > 24
               /\ frame[u].alloc_size > 32
    /\ \A r \in returned :
           /\ r.req <= 640
           /\ r.alloc_size \in SizeClasses
           /\ \A w \in -1..4 : r.obj + w * WORD \in DOMAIN heap
           /\ heap[r.obj - WORD] = r.alloc_size
           /\ heap[r.obj] = r.flags
           /\ heap[r.obj + WORD] = r.klass
           /\ heap[r.obj + 2 * WORD] = r.v1
           /\ heap[r.obj + 3 * WORD] = r.v2
           /\ heap[r.obj + 4 * WORD] = r.v3

\* C17 witness: a request of 8 bytes, smaller than the header itself, has
\* returned an object of class 40 that holds all three inline values.
C17_Witness ==
    \E r \in returned :
        /\ r.req = 8
        /\ heap[r.obj - WORD] = 40
        /\ r.v1 # NULL /\ r.v2 # NULL /\ r.v3 # NULL
        /\ heap[r.obj + 2 * WORD] = r.v1
        /\ heap[r.obj + 3 * WORD] = r.v2
        /\ heap[r.obj + 4 * WORD] = r.v3

\* C18: the three size tests agree: for every size s,
\* rb_gc_impl_size_allocatable_p(s) is true exactly when rb_gc_impl_new_obj
\* called with s does not abort on the size, and exactly when
\* rb_gc_impl_size_pool_id_for_size(s) returns an index instead of aborting.
C18_AllocatableAgrees ==
    /\ query # NoQuery =>
           /\ rb_gc_impl_size_allocatable_p(query.size) <=> query.id \in 0..(SIZE_POOL_COUNT - 1)
           /\ rb_gc_impl_size_allocatable_p(query.size) <=> bug # "size too big"
    /\ \A u \in Units :
           pc[u] # "idle" =>
               /\ rb_gc_impl_size_allocatable_p(frame[u].req) <=> pc[u] # "bug"
               /\ rb_gc_impl_size_allocatable_p(frame[u].req) <=> bug # "too big"
    /\ \A r \in returned : rb_gc_impl_size_allocatable_p(r.req)

\* C18 witness: the largest allocatable size has been given pool 4 and an object.
C18_Witness ==
    /\ query # NoQuery /\ query.size = 640 /\ query.id = 4
    /\ \E r \in returned : r.req = 640 /\ rb_gc_impl_size_allocatable_p(r.req)
    /\ bug = "none"

\* C18 witness: the first size that is not allocatable has aborted the query.
C18_WitnessFatal ==
    /\ query # NoQuery /\ query.size = 641 /\ ~rb_gc_impl_size_allocatable_p(query.size)
    /\ bug = "size too big"

====
